---- MODULE Spec2Model ----
(***************************************************************************)
(* BLE WiFi provisioning: the GATT credential reassembly buffer, the       *)
(* bonding gate, the credential parser, the provisioning state machine and *)
(* the WiFi event glue (main/ble_provisioning.c, main/wifi_manager.c,      *)
(* main/main.c).                                                           *)
(*                                                                         *)
(* Every handler is one atomic action.  Bytes are one-character strings,   *)
(* byte strings are sequences of them.  cred_write_buffer holds the first  *)
(* cred_write_len bytes of the C array: no handler reads the array at or   *)
(* beyond cred_write_len.  malloc and the ESP_ERROR_CHECK'ed driver calls  *)
(* are taken to succeed.                                                   *)
(*                                                                         *)
(* Spec is the whole system with a peer that sends one valid and one       *)
(* malformed payload; SpecBle is the BLE handlers alone with a peer that   *)
(* draws from the whole payload catalogue and uses long writes.            *)
(***************************************************************************)
EXTENDS Integers, Sequences, FiniteSets, TLC

\* ------------------------------------------------------------------------
\* Program constants
\* ------------------------------------------------------------------------
MAX_CRED_BUFFER_SIZE == 512

STORED_WAIT_POLLS == 30

MAX_RETRY_ATTEMPTS == 5

\* sizeof(pending_ssid) - 1 and sizeof(pending_password) - 1 (strncpy limits)
SSID_MAX == 32

PASSWORD_MAX == 63

\* ------------------------------------------------------------------------
\* Bounds of the model
\* ------------------------------------------------------------------------
\* A peer starts a new transfer on top of unconsumed bytes only while at most
\* MaxStale bytes are buffered.
MaxStale == 12

\* Prepared (long-write) fragments tracked per long-write sequence.
MaxPrep == 2

\* ------------------------------------------------------------------------
\* Bytes and the payload catalogue the peer draws from
\* ------------------------------------------------------------------------
Q == "\""

Digits == {"1", "2"}

StrLit(s) == <<Q>> \o s \o <<Q>>

\* The member names handle_wifi_credentials looks up.
SsidName == <<"s", "s", "i", "d">>

PasswordName == <<"p", "a", "s", "s", "w", "o", "r", "d">>

KeySsid == StrLit(SsidName)

KeyPassword == StrLit(PasswordName)

Fill(n) == [i \in 1..n |-> "x"]

FlatIds == {"V1", "VB"}

MalformedIds == {"NoSsid", "NoPw", "SsidNum", "PwNum", "NotJson", "Empty"}

FillIds == {"F500", "F513"}

PayloadIds == FlatIds \cup MalformedIds \cup FillIds

PayloadOf(id) ==
  CASE id = "V1" ->
         <<"{">> \o KeySsid \o <<":">> \o StrLit(<<"a">>) \o <<",">>
           \o KeyPassword \o <<":">> \o StrLit(<<"b">>) \o <<"}">>
    [] id = "VB" ->
         <<"{">> \o KeySsid \o <<":">> \o StrLit(<<"a">>) \o <<",">>
           \o KeyPassword \o <<":">> \o StrLit(<<"}">>) \o <<"}">>
    [] id = "NoSsid" ->
         <<"{">> \o KeyPassword \o <<":">> \o StrLit(<<"b">>) \o <<"}">>
    [] id = "NoPw" ->
         <<"{">> \o KeySsid \o <<":">> \o StrLit(<<"a">>) \o <<"}">>
    [] id = "SsidNum" ->
         <<"{">> \o KeySsid \o <<":", "1", ",">>
           \o KeyPassword \o <<":">> \o StrLit(<<"b">>) \o <<"}">>
    [] id = "PwNum" ->
         <<"{">> \o KeySsid \o <<":">> \o StrLit(<<"a">>) \o <<",">>
           \o KeyPassword \o <<":", "2", "}">>
    [] id = "NotJson" -> <<"{">> \o KeySsid \o <<"}">>
    [] id = "Empty" -> <<"{", "}">>
    [] id = "F500" -> Fill(500)
    [] id = "F513" -> Fill(513)

PayloadTable == [id \in PayloadIds |-> PayloadOf(id)]

Payload(id) == PayloadTable[id]

\* ------------------------------------------------------------------------
\* cJSON, as handle_wifi_credentials uses it
\* ------------------------------------------------------------------------
ParseFail == [ok |-> FALSE]

RECURSIVE ScanQuote(_, _)
ScanQuote(s, i) ==
  IF i > Len(s) THEN 0
  ELSE IF s[i] = Q THEN i
  ELSE ScanQuote(s, i + 1)

parse_string(s, i) ==
  IF i > Len(s) THEN ParseFail
  ELSE IF s[i] # Q THEN ParseFail
  ELSE LET j == ScanQuote(s, i + 1) IN
       IF j = 0 THEN ParseFail
       ELSE [ok |-> TRUE, type |-> "String", str |-> SubSeq(s, i + 1, j - 1),
             members |-> <<>>, next |-> j + 1]

RECURSIVE ScanDigits(_, _)
ScanDigits(s, i) ==
  IF i > Len(s) THEN i
  ELSE IF s[i] \in Digits THEN ScanDigits(s, i + 1)
  ELSE i

parse_number(s, i) ==
  LET j == ScanDigits(s, i) IN
  IF j = i THEN ParseFail
  ELSE [ok |-> TRUE, type |-> "Number", str |-> <<>>, members |-> <<>>, next |-> j]

RECURSIVE parse_value(_, _)
RECURSIVE parse_members(_, _, _)
parse_members(s, i, acc) ==
  LET k == parse_string(s, i) IN
  IF ~k.ok THEN ParseFail
  ELSE IF k.next > Len(s) THEN ParseFail
  ELSE IF s[k.next] # ":" THEN ParseFail
  ELSE LET v == parse_value(s, k.next + 1) IN
       IF ~v.ok THEN ParseFail
       ELSE LET acc2 == Append(acc, [key |-> k.str, type |-> v.type, str |-> v.str]) IN
            IF v.next > Len(s) THEN ParseFail
            ELSE IF s[v.next] = "," THEN parse_members(s, v.next + 1, acc2)
            ELSE IF s[v.next] = "}"
                 THEN [ok |-> TRUE, type |-> "Object", str |-> <<>>,
                       members |-> acc2, next |-> v.next + 1]
                 ELSE ParseFail

parse_object(s, i) ==
  IF i + 1 > Len(s) THEN ParseFail
  ELSE IF s[i + 1] = "}"
       THEN [ok |-> TRUE, type |-> "Object", str |-> <<>>, members |-> <<>>,
             next |-> i + 2]
       ELSE parse_members(s, i + 1, <<>>)

parse_value(s, i) ==
  IF i > Len(s) THEN ParseFail
  ELSE IF s[i] = Q THEN parse_string(s, i)
  ELSE IF s[i] \in Digits THEN parse_number(s, i)
  ELSE IF s[i] = "{" THEN parse_object(s, i)
  ELSE ParseFail

\* cJSON_Parse(json_str): one value, trailing bytes are not inspected.
cJSON_Parse(s) == parse_value(s, 1)

CJSON_NULL == [type |-> "NULL", str |-> <<>>]

RECURSIVE FindItem(_, _, _)
FindItem(members, name, i) ==
  IF i > Len(members) THEN CJSON_NULL
  ELSE IF members[i].key = name
       THEN [type |-> members[i].type, str |-> members[i].str]
       ELSE FindItem(members, name, i + 1)

\* cJSON_GetObjectItem(root, name): the first member of that name, or NULL.
cJSON_GetObjectItem(root, name) ==
  IF root.type # "Object" THEN CJSON_NULL ELSE FindItem(root.members, name, 1)

cJSON_IsString(item) == item.type = "String"

\* ------------------------------------------------------------------------
\* State
\* ------------------------------------------------------------------------
VARIABLES
  is_connected,        \* ble_provisioning.c: a GATT client is connected
  is_bonded,           \* ble_provisioning.c: pairing completed with success
  cred_write_buffer,   \* the first cred_write_len bytes of the reassembly array
  cred_timeout_timer,  \* "NULL" (never created), "stopped" or "armed"
  advertising,         \* the controller is advertising
  ble_up,              \* the BLE stack is initialised (until ble_provisioning_deinit)
  prov,                \* provisioning state: [state, status, message]
  s_retry_num,         \* wifi_manager.c
  s_is_connected,      \* wifi_manager.c
  pending_ssid,        \* wifi_manager.c
  pending_password,    \* wifi_manager.c
  nvs,                 \* stored credentials: <<>> or <<ssid, password>>
  wifi_drv,            \* WiFi driver: "idle", "connecting" or "connected"
  wifi_config,         \* the station configuration the driver holds: <<ssid, password>>
  main_pc,             \* app_main: "boot", "wait", "check", "ble_init", "poll"
                       \* (provisioning loop), "normal" or "returned"
  stored_ssid,         \* app_main's local
  stored_password,     \* app_main's local
  out,                 \* what the last handler did (observable effects of one step)
  tx,                  \* the peer's cursor in the payload it is sending
  prep,                \* the long-write sequence the peer has sent so far
  scn,                 \* progress of the first provisioning run since boot
  since,               \* credential writes handled since the pending deadline was set:
                       \* "none", "rejected" (none was buffered) or "buffered"
  wr,                  \* the write handler's position when the timer task preempts it:
                       \* [pc |-> "idle"] or, past its test for '}', "dispatch"
  wait_time,           \* app_main's local: polls made while waiting for the stored network
  linked               \* the station got its address while app_main was waiting for it

bleVars == <<is_connected, is_bonded, cred_write_buffer, cred_timeout_timer,
             advertising, ble_up>>

wifiVars == <<s_retry_num, s_is_connected, pending_ssid, pending_password, nvs,
              wifi_drv, wifi_config>>

mainVars == <<main_pc, stored_ssid, stored_password>>

vars == <<is_connected, is_bonded, cred_write_buffer, cred_timeout_timer,
          advertising, ble_up, prov, s_retry_num, s_is_connected, pending_ssid,
          pending_password, nvs, wifi_drv, wifi_config, main_pc, stored_ssid,
          stored_password, out, tx, prep, scn, since, wr, wait_time, linked>>

cred_write_len == Len(cred_write_buffer)

\* ------------------------------------------------------------------------
\* Provisioning state machine (provisioning_state.c is not part of the sources:
\* the setter stores its three arguments and runs the observers)
\* ------------------------------------------------------------------------
ProvStates == {"IDLE", "BLE_CONNECTED", "CREDENTIALS_RECEIVED", "WIFI_CONNECTING",
               "WIFI_CONNECTED", "WIFI_FAILED", "PROVISIONED", "ERROR"}

provisioning_state_set(state, status, message) ==
  [state |-> state, status |-> status, message |-> message]

\* wifi_manager.c's send_status_notification, as an entry of a handler's calls.
send_status_notification(state, status, message) ==
  [state |-> state, status |-> status, message |-> message, note |-> TRUE]

\* provisioning_state_set followed by send_status_notification, as wifi_manager.c
\* always pairs them.
set_and_notify(state, status, message) ==
  <<provisioning_state_set(state, status, message),
    send_status_notification(state, status, message)>>

IsSet(call) == "note" \notin DOMAIN call

\* The calls of provisioning_state_set among a handler's calls, in order.
SetsOnly(calls) == SelectSeq(calls, IsSet)

\* The state left by a handler's calls of the setter, in order.
AfterSets(sets) ==
  IF SetsOnly(sets) = <<>> THEN prov ELSE SetsOnly(sets)[Len(SetsOnly(sets))]

StatesOf(sets) == [i \in 1..Len(SetsOnly(sets)) |-> SetsOnly(sets)[i].state]

\* ------------------------------------------------------------------------
\* Indications (ble_provisioning_send_state, ble_provisioning_send_status) and
\* the observer main.c registers with the state machine
\* ------------------------------------------------------------------------
\* state_change_handler's switch: 0=AWAITING, 1=PROVISIONING, 2=SUCCESS, 3=FAILED
\* The handler with CREDENTIALS_RECEIVED counted as PROVISIONING.
app_state_early(state) ==
  IF state \in {"IDLE", "BLE_CONNECTED"} THEN 0
  ELSE IF state \in {"CREDENTIALS_RECEIVED", "WIFI_CONNECTING"} THEN 1
  ELSE IF state \in {"WIFI_CONNECTED", "PROVISIONED"} THEN 2
  ELSE IF state \in {"WIFI_FAILED", "ERROR"} THEN 3
  ELSE 0

app_state(state) ==
  IF state \in {"IDLE", "BLE_CONNECTED", "CREDENTIALS_RECEIVED"} THEN 0
  ELSE IF state = "WIFI_CONNECTING" THEN 1
  ELSE IF state \in {"WIFI_CONNECTED", "PROVISIONED"} THEN 2
  ELSE IF state \in {"WIFI_FAILED", "ERROR"} THEN 3
  ELSE 0

\* One call of a send function: what was to be sent, on which characteristic,
\* and whether an indication went out (ok) or the call returned a failure.
Send(ch, byte, form, state, status, text, ok) ==
  [ch |-> ch, byte |-> byte, form |-> form, state |-> state, status |-> status,
   text |-> text, ok |-> ok]

\* ble_provisioning_send_state without its is_connected test.
ble_provisioning_send_state_unchecked(state, connected, up) ==
  Send("state", state, "byte", "", "", "", up)

\* connected is is_connected; up tells whether Bluedroid is enabled
\* (esp_ble_gatts_send_indicate fails once it is disabled).
ble_provisioning_send_state(state, connected, up) ==
  IF ~connected THEN Send("state", state, "byte", "", "", "", FALSE)
  ELSE Send("state", state, "byte", "", "", "", up)

\* ble_provisioning_send_status without its is_connected test.
ble_provisioning_send_status_unchecked(status_json, connected, up) ==
  [status_json EXCEPT !.ok = up]

\* status_json is the text to send, as Send("status", ...) with ok unset.
ble_provisioning_send_status(status_json, connected, up) ==
  IF ~connected THEN [status_json EXCEPT !.ok = FALSE]
  ELSE [status_json EXCEPT !.ok = up]

\* state_change_handler without the send of the status message.
state_change_handler_state_only(state, status, message, connected, up) ==
  IF connected
  THEN <<ble_provisioning_send_state(app_state(state), connected, up)>>
  ELSE <<>>

\* main.c's state_change_handler, run by provisioning_state_set.
state_change_handler(state, status, message, connected, up) ==
  IF connected
  THEN <<ble_provisioning_send_state(app_state(state), connected, up),
         ble_provisioning_send_status(
           Send("status", -1, "text", "", "", message, FALSE), connected, up)>>
  ELSE <<>>

\* The sends of wifi_manager.c's send_status_notification.
status_notification_sends(state, status, message, connected, up) ==
  IF ~connected THEN <<>>
  ELSE <<ble_provisioning_send_status(
           Send("status", -1, "json", state, status, message, FALSE), connected, up)>>

\* The sends of a handler's calls, in order.
RECURSIVE Sends(_, _, _)
Sends(calls, connected, up) ==
  IF calls = <<>> THEN <<>>
  ELSE LET c == Head(calls) IN
       (IF IsSet(c)
        THEN state_change_handler(c.state, c.status, c.message, connected, up)
        ELSE status_notification_sends(c.state, c.status, c.message, connected, up))
         \o Sends(Tail(calls), connected, up)

\* ------------------------------------------------------------------------
\* wifi_manager_connect and handle_wifi_credentials
\* ------------------------------------------------------------------------
\* strncpy(dst, src, n) into a zeroed or longer buffer: the first n bytes of src
strncpy(src, n) == SubSeq(src, 1, IF Len(src) < n THEN Len(src) ELSE n)

wifi_manager_connect(ssid, password) ==
  [pending_ssid |-> strncpy(ssid, SSID_MAX),
   pending_password |-> strncpy(password, PASSWORD_MAX),
   wifi_config |-> <<strncpy(ssid, SSID_MAX - 1), strncpy(password, PASSWORD_MAX)>>,
   s_retry_num |-> 0,
   wifi_drv |-> "connecting",
   sets |-> set_and_notify("WIFI_CONNECTING", "STATUS_SUCCESS",
                           "Initiating WiFi connection")]

\* handle_wifi_credentials without the check of the password item's type.
handle_wifi_credentials_lenient(data) ==
  LET root == cJSON_Parse(data) IN
  IF ~root.ok
  THEN [sets |-> <<provisioning_state_set("ERROR", "STATUS_ERROR_INVALID_JSON",
                                          "Invalid JSON format")>>,
        connects |-> <<>>]
  ELSE
    LET ssid_item == cJSON_GetObjectItem(root, SsidName)
        password_item == cJSON_GetObjectItem(root, PasswordName)
    IN
    IF ~cJSON_IsString(ssid_item)
    THEN [sets |-> <<provisioning_state_set("ERROR", "STATUS_ERROR_MISSING_SSID",
                                            "SSID field missing or invalid")>>,
          connects |-> <<>>]
    ELSE [sets |-> <<provisioning_state_set("CREDENTIALS_RECEIVED", "STATUS_SUCCESS",
                                            "Credentials received successfully")>>
                   \o wifi_manager_connect(ssid_item.str, <<>>).sets,
          connects |-> << <<ssid_item.str, <<>> >> >>]

handle_wifi_credentials(data) ==
  LET root == cJSON_Parse(data) IN
  IF ~root.ok
  THEN [sets |-> <<provisioning_state_set("ERROR", "STATUS_ERROR_INVALID_JSON",
                                          "Invalid JSON format")>>,
        connects |-> <<>>]
  ELSE
    LET ssid_item == cJSON_GetObjectItem(root, SsidName)
        password_item == cJSON_GetObjectItem(root, PasswordName)
    IN
    IF ~cJSON_IsString(ssid_item)
    THEN [sets |-> <<provisioning_state_set("ERROR", "STATUS_ERROR_MISSING_SSID",
                                            "SSID field missing or invalid")>>,
          connects |-> <<>>]
    ELSE IF ~cJSON_IsString(password_item)
    THEN [sets |-> <<provisioning_state_set("ERROR", "STATUS_ERROR_MISSING_PASSWORD",
                                            "Password field missing or invalid")>>,
          connects |-> <<>>]
    ELSE [sets |-> <<provisioning_state_set("CREDENTIALS_RECEIVED", "STATUS_SUCCESS",
                                            "Credentials received successfully")>>
                   \o wifi_manager_connect(ssid_item.str, password_item.str).sets,
          connects |-> << <<ssid_item.str, password_item.str>> >>]

\* The WiFi manager's variables after the wifi_manager_connect calls of a handler.
ApplyConnects(connects) ==
  IF connects = <<>>
  THEN UNCHANGED <<s_retry_num, pending_ssid, pending_password, wifi_drv, wifi_config>>
  ELSE LET c == wifi_manager_connect(connects[Len(connects)][1],
                                     connects[Len(connects)][2]) IN
       /\ s_retry_num' = c.s_retry_num
       /\ pending_ssid' = c.pending_ssid
       /\ pending_password' = c.pending_password
       /\ wifi_drv' = c.wifi_drv
       /\ wifi_config' = c.wifi_config

\* sets are the handler's calls of provisioning_state_set and
\* send_status_notification.  The connect and disconnect handlers change
\* is_connected before they make them and say so themselves.
Out(ev, arg, rsp, parsed, connects, sets) ==
  [ev |-> ev, arg |-> arg, len |-> 0, rsp |-> rsp, parsed |-> parsed,
   connects |-> connects, sets |-> StatesOf(sets),
   sends |-> Sends(sets, is_connected, ble_up), from |-> prov.state,
   need_rsp |-> FALSE]

\* The BT task is between two events.
BtcIdle == [pc |-> "idle", data |-> <<>>]

NoTx == [p |-> "none", pos |-> 0, clean |-> FALSE]

NoPrep == [n |-> 0, img |-> <<>>]

Init ==
  /\ is_connected = FALSE
  /\ is_bonded = FALSE
  /\ cred_write_buffer = <<>>
  /\ cred_timeout_timer = "NULL"
  /\ advertising = TRUE
  /\ ble_up = TRUE
  /\ prov = provisioning_state_set("IDLE", "STATUS_SUCCESS", "")
  /\ s_retry_num = 0
  /\ s_is_connected = FALSE
  /\ pending_ssid = <<>>
  /\ pending_password = <<>>
  /\ nvs = <<>>
  /\ wifi_drv = "idle"
  /\ wifi_config = <<<<>>, <<>>>>
  /\ main_pc = "poll"
  /\ stored_ssid = <<>>
  /\ stored_password = <<>>
  /\ out = [ev |-> "boot", arg |-> "", len |-> 0, rsp |-> 0, parsed |-> <<>>,
            connects |-> <<>>, sets |-> <<>>, sends |-> <<>>, from |-> "IDLE",
            need_rsp |-> FALSE]
  /\ tx = NoTx
  /\ prep = NoPrep
  /\ scn = 0
  /\ since = "none"
  /\ wr = BtcIdle
  /\ wait_time = 0
  /\ linked = FALSE

\* ------------------------------------------------------------------------
\* BLE handlers (gap_event_handler, gatts_event_handler, cred_timeout_callback)
\* Each yields the handler's effects; the actions below apply them.
\* ------------------------------------------------------------------------
NoEffect ==
  [buf |-> cred_write_buffer, timer |-> cred_timeout_timer, sets |-> <<>>,
   parsed |-> <<>>, connects |-> <<>>, rsp |-> 0]

\* Deviations of the credential-write handler, one per name in dev:
\*   "ungated"     the bonded check is dropped
\*   "buffering"   an unbonded write is buffered before it is rejected
\*   "eager"       every fragment that fits is dispatched at once
\*   "keeping"     an overflowing fragment leaves the buffered bytes in place
\*   "sticky"      a payload that raised an error stays in the buffer
\*   "unbounded"   the capacity check is dropped
\*   "lazy"        the timer is started only if it is not already running
\*   "late"        the response is sent after the bonded check has passed
write_cred_deviating(value, need_rsp, dev) ==
  LET rsp == IF need_rsp THEN 1 ELSE 0 IN
  IF is_bonded \/ dev = "ungated"
  THEN IF cred_write_len + Len(value) <= MAX_CRED_BUFFER_SIZE \/ dev = "unbounded"
       THEN LET buf == cred_write_buffer \o value IN
            IF Len(buf) > 0 /\ (buf[Len(buf)] = "}" \/ dev = "eager")
            THEN LET h == handle_wifi_credentials(buf) IN
                 [buf |-> IF dev = "sticky" /\ h.connects = <<>> THEN buf ELSE <<>>,
                  timer |-> IF cred_timeout_timer # "NULL" THEN "stopped" ELSE "NULL",
                  sets |-> h.sets, parsed |-> <<buf>>, connects |-> h.connects,
                  rsp |-> rsp, stored |-> TRUE, starts |-> 0]
            ELSE [buf |-> buf, timer |-> "armed", sets |-> <<>>, parsed |-> <<>>,
                  connects |-> <<>>, rsp |-> rsp, stored |-> TRUE,
                  starts |-> IF dev = "lazy" /\ cred_timeout_timer = "armed"
                             THEN 0 ELSE 1]
       ELSE [buf |-> IF dev = "keeping" THEN cred_write_buffer ELSE <<>>,
             timer |-> cred_timeout_timer,
             sets |-> <<provisioning_state_set("ERROR", "STATUS_ERROR_INVALID_JSON",
                                               "Credentials too long")>>,
             parsed |-> <<>>, connects |-> <<>>, rsp |-> rsp,
        stored |-> FALSE, starts |-> 0]
  ELSE [buf |-> IF dev = "buffering" THEN cred_write_buffer \o value
                ELSE cred_write_buffer,
        timer |-> IF dev = "buffering" THEN "armed" ELSE cred_timeout_timer,
        sets |-> <<provisioning_state_set("ERROR", "STATUS_ERROR_INVALID_JSON",
                     "Device must be bonded before sending credentials")>>,
        parsed |-> <<>>, connects |-> <<>>,
        rsp |-> IF dev = "late" THEN 0 ELSE rsp,
        stored |-> FALSE, starts |-> 0]

gatts_write_cred_ungated(value, need_rsp) ==
  write_cred_deviating(value, need_rsp, "ungated")

gatts_write_cred_buffering(value, need_rsp) ==
  write_cred_deviating(value, need_rsp, "buffering")

gatts_write_cred_eager(value, need_rsp) ==
  write_cred_deviating(value, need_rsp, "eager")

gatts_write_cred_keeping(value, need_rsp) ==
  write_cred_deviating(value, need_rsp, "keeping")

gatts_write_cred_sticky(value, need_rsp) ==
  write_cred_deviating(value, need_rsp, "sticky")

gatts_write_cred_unbounded(value, need_rsp) ==
  write_cred_deviating(value, need_rsp, "unbounded")

gatts_write_cred_lazy(value, need_rsp) ==
  write_cred_deviating(value, need_rsp, "lazy")

gatts_write_cred_late(value, need_rsp) ==
  write_cred_deviating(value, need_rsp, "late")

\* ESP_GATTS_WRITE_EVT, !is_prep, handle == IDX_WIFI_CRED_VAL
gatts_write_cred(value, need_rsp) ==
  LET rsp == IF need_rsp THEN 1 ELSE 0 IN
  IF is_bonded
  THEN IF cred_write_len + Len(value) <= MAX_CRED_BUFFER_SIZE
       THEN LET buf == cred_write_buffer \o value IN
            IF Len(buf) > 0 /\ buf[Len(buf)] = "}"
            THEN LET h == handle_wifi_credentials(buf) IN
                 [buf |-> <<>>,
                  timer |-> IF cred_timeout_timer # "NULL" THEN "stopped" ELSE "NULL",
                  sets |-> h.sets, parsed |-> <<buf>>, connects |-> h.connects,
                  rsp |-> rsp, stored |-> TRUE, starts |-> 0]
            ELSE [buf |-> buf, timer |-> "armed", sets |-> <<>>, parsed |-> <<>>,
                  connects |-> <<>>, rsp |-> rsp, stored |-> TRUE, starts |-> 1]
       ELSE [buf |-> <<>>, timer |-> cred_timeout_timer,
             sets |-> <<provisioning_state_set("ERROR", "STATUS_ERROR_INVALID_JSON",
                                               "Credentials too long")>>,
             parsed |-> <<>>, connects |-> <<>>, rsp |-> rsp,
        stored |-> FALSE, starts |-> 0]
  ELSE [buf |-> cred_write_buffer, timer |-> cred_timeout_timer,
        sets |-> <<provisioning_state_set("ERROR", "STATUS_ERROR_INVALID_JSON",
                     "Device must be bonded before sending credentials")>>,
        parsed |-> <<>>, connects |-> <<>>, rsp |-> rsp,
        stored |-> FALSE, starts |-> 0]

\* ESP_GATTS_WRITE_EVT with is_prep set: the handler's body is guarded by
\* if (!param->write.is_prep), so nothing is buffered and nothing is answered.
gatts_prep_write(offset, value, need_rsp) == NoEffect

\* ESP_GATTS_WRITE_EVT, !is_prep, handle == IDX_STATE_CFG or IDX_STATUS_CFG
gatts_write_cccd(which, descr_value) ==
  IF which = "STATUS_CFG" /\ descr_value = 1
  THEN [NoEffect EXCEPT
          !.sets = <<provisioning_state_set("IDLE", "STATUS_SUCCESS",
                                            "Ready to receive WiFi credentials")>>]
  ELSE NoEffect

\* ESP_GATTS_EXEC_WRITE_EVT with the cancel flag handled as a commit.
gatts_exec_write_committing(exec_write_flag) ==
  IF cred_write_len > 0
  THEN LET h == handle_wifi_credentials(cred_write_buffer) IN
       [buf |-> <<>>, timer |-> cred_timeout_timer, sets |-> h.sets,
        parsed |-> <<cred_write_buffer>>, connects |-> h.connects, rsp |-> 1]
  ELSE [NoEffect EXCEPT !.rsp = 1]

\* ESP_GATTS_EXEC_WRITE_EVT answering only when it has discarded or dispatched.
gatts_exec_write_quiet(exec_write_flag) ==
  IF exec_write_flag = "EXEC" /\ cred_write_len > 0
  THEN LET h == handle_wifi_credentials(cred_write_buffer) IN
       [buf |-> <<>>, timer |-> cred_timeout_timer, sets |-> h.sets,
        parsed |-> <<cred_write_buffer>>, connects |-> h.connects, rsp |-> 1]
  ELSE IF exec_write_flag = "CANCEL"
  THEN [NoEffect EXCEPT !.buf = <<>>, !.rsp = 1]
  ELSE NoEffect

\* ESP_GATTS_EXEC_WRITE_EVT
gatts_exec_write(exec_write_flag) ==
  IF exec_write_flag = "EXEC" /\ cred_write_len > 0
  THEN LET h == handle_wifi_credentials(cred_write_buffer) IN
       [buf |-> <<>>, timer |-> cred_timeout_timer, sets |-> h.sets,
        parsed |-> <<cred_write_buffer>>, connects |-> h.connects, rsp |-> 1]
  ELSE IF exec_write_flag = "CANCEL"
  THEN [NoEffect EXCEPT !.buf = <<>>, !.rsp = 1]
  ELSE [NoEffect EXCEPT !.rsp = 1]

\* cred_timeout_callback without its cred_write_len > 0 guard.
cred_timeout_callback_unguarded ==
  LET h == handle_wifi_credentials(cred_write_buffer) IN
  [buf |-> <<>>, timer |-> "stopped", sets |-> h.sets,
   parsed |-> <<cred_write_buffer>>, connects |-> h.connects, rsp |-> 0]

cred_timeout_callback ==
  IF cred_write_len > 0
  THEN LET h == handle_wifi_credentials(cred_write_buffer) IN
       [buf |-> <<>>, timer |-> "stopped", sets |-> h.sets,
        parsed |-> <<cred_write_buffer>>, connects |-> h.connects, rsp |-> 0]
  ELSE [NoEffect EXCEPT !.timer = "stopped"]

\* ESP_GATTS_CONNECT_EVT
gatts_connect ==
  [is_connected |-> TRUE, is_bonded |-> is_bonded, advertising |-> FALSE,
   sets |-> <<provisioning_state_set("BLE_CONNECTED", "STATUS_SUCCESS",
                                     "BLE client connected")>>]

\* ESP_GATTS_DISCONNECT_EVT without the test for PROV_STATE_PROVISIONED.
gatts_disconnect_unconditional ==
  [is_connected |-> FALSE, is_bonded |-> FALSE, advertising |-> TRUE,
   sets |-> <<provisioning_state_set("IDLE", "STATUS_SUCCESS",
                "BLE disconnected, restarting advertising")>>]

\* ESP_GATTS_DISCONNECT_EVT leaving the bonded flag as it is.
gatts_disconnect_bond_kept ==
  [is_connected |-> FALSE, is_bonded |-> is_bonded,
   advertising |-> IF prov.state # "PROVISIONED" THEN TRUE ELSE advertising,
   sets |-> IF prov.state # "PROVISIONED"
            THEN <<provisioning_state_set("IDLE", "STATUS_SUCCESS",
                     "BLE disconnected, restarting advertising")>>
            ELSE <<>>]

\* ESP_GATTS_DISCONNECT_EVT
gatts_disconnect ==
  IF prov.state # "PROVISIONED"
  THEN [is_connected |-> FALSE, is_bonded |-> FALSE, advertising |-> TRUE,
        sets |-> <<provisioning_state_set("IDLE", "STATUS_SUCCESS",
                     "BLE disconnected, restarting advertising")>>]
  ELSE [is_connected |-> FALSE, is_bonded |-> FALSE, advertising |-> advertising,
        sets |-> <<>>]

\* ESP_GAP_BLE_SEC_REQ_EVT: the second argument of esp_ble_gap_security_rsp
gap_sec_req == TRUE

\* ESP_GAP_BLE_AUTH_CMPL_EVT in which a failure leaves the flag as it is.
gap_auth_cmpl_sticky(success) == is_bonded \/ success

\* ESP_GAP_BLE_AUTH_CMPL_EVT
gap_auth_cmpl(success) == success

\* ------------------------------------------------------------------------
\* The peer's view, kept beside the program state
\* ------------------------------------------------------------------------
ValidPayloads == {Payload(id) : id \in FlatIds}

\* The long-write image a sequence of prepared fragments describes.
Overlay(img, offset, value) ==
  LET n == IF Len(img) > offset + Len(value) THEN Len(img) ELSE offset + Len(value)
  IN [i \in 1..n |->
        IF i > offset /\ i <= offset + Len(value) THEN value[i - offset]
        ELSE IF i <= Len(img) THEN img[i]
        ELSE "NUL"]

\* The offsets at which the peer cuts a flat payload into fragments: between the
\* members and after the 25th byte (the '}' inside VB's secret).
CutPoints == {12, 25}

\* The peer of the whole-system specification: one valid payload, cut once, one
\* payload with a member missing, one that is not JSON and one too long.
CoreIds == {"V1", "NoPw", "NotJson", "F513"}

CoreCuts == {12}

\* (offset, length) of the prepared fragments the peer cuts from payload V1:
\* its two halves
PrepChunks == {<<0, 13>>, <<13, 14>>}

Unclean == [tx EXCEPT !.clean = FALSE]

\* ------------------------------------------------------------------------
\* Actions: BLE
\* A handler's result is bound once (\E r \in {handler}) and then applied.
\* ------------------------------------------------------------------------
GattsConnect ==
  /\ UNCHANGED <<since, wr, wait_time, linked>>
  /\ ble_up /\ advertising /\ ~is_connected
  /\ LET r == gatts_connect IN
     /\ is_connected' = r.is_connected
     /\ is_bonded' = r.is_bonded
     /\ advertising' = r.advertising
     /\ prov' = AfterSets(r.sets)
     /\ out' = [Out("connect", "", 0, <<>>, <<>>, r.sets)
                  EXCEPT !.sends = Sends(r.sets, r.is_connected, ble_up)]
  /\ tx' = NoTx
  /\ prep' = NoPrep
  /\ scn' = IF scn = 0 THEN 1 ELSE -1
  /\ UNCHANGED <<cred_write_buffer, cred_timeout_timer, ble_up>>
  /\ UNCHANGED wifiVars
  /\ UNCHANGED mainVars

GattsDisconnect ==
  /\ UNCHANGED <<since, wr, wait_time, linked>>
  /\ ble_up /\ is_connected
  /\ LET r == gatts_disconnect IN
     /\ is_connected' = r.is_connected
     /\ is_bonded' = r.is_bonded
     /\ advertising' = r.advertising
     /\ prov' = AfterSets(r.sets)
     /\ out' = [Out("disconnect", "", 0, <<>>, <<>>, r.sets)
                  EXCEPT !.sends = Sends(r.sets, r.is_connected, ble_up)]
  /\ tx' = NoTx
  /\ prep' = NoPrep
  /\ scn' = -1
  /\ UNCHANGED <<cred_write_buffer, cred_timeout_timer, ble_up>>
  /\ UNCHANGED wifiVars
  /\ UNCHANGED mainVars

GapAuthCmpl ==
  /\ UNCHANGED <<since, wr, wait_time, linked>>
  /\ ble_up /\ is_connected
  /\ \E success \in BOOLEAN :
       /\ is_bonded' = gap_auth_cmpl(success)
       /\ out' = Out("auth_cmpl", IF success THEN "success" ELSE "fail", 0,
                     <<>>, <<>>, <<>>)
       /\ scn' = IF scn = 1 /\ success THEN 2 ELSE -1
  /\ tx' = Unclean
  /\ prep' = NoPrep
  /\ UNCHANGED <<is_connected, cred_write_buffer, cred_timeout_timer, advertising,
                 ble_up, prov>>
  /\ UNCHANGED wifiVars
  /\ UNCHANGED mainVars

GapSecReq ==
  /\ UNCHANGED <<since, wr, wait_time, linked>>
  /\ ble_up /\ is_connected
  /\ out' = Out("sec_req", IF gap_sec_req THEN "accept" ELSE "reject", 0,
                <<>>, <<>>, <<>>)
  /\ scn' = -1
  /\ tx' = Unclean
  /\ prep' = NoPrep
  /\ UNCHANGED <<is_connected, is_bonded, cred_write_buffer, cred_timeout_timer,
                 advertising, ble_up, prov>>
  /\ UNCHANGED wifiVars
  /\ UNCHANGED mainVars

\* The effects of a credential-path handler on the buffer, the timer, the state
\* machine and the WiFi manager.
ApplyEffect(r) ==
  /\ cred_write_buffer' = r.buf
  /\ cred_timeout_timer' = r.timer
  /\ prov' = AfterSets(r.sets)
  /\ ApplyConnects(r.connects)
  /\ UNCHANGED <<is_connected, is_bonded, advertising, ble_up, s_is_connected, nvs>>
  /\ UNCHANGED mainVars

\* Where a write may end in payload p when it starts at offset start: at a cut
\* point or at the payload's end (ending at start is a zero-length write).
Ends(p, start, cuts) ==
  IF p \in FlatIds
  THEN {e \in cuts \cup {Len(Payload(p))} : e >= start}
  ELSE {Len(Payload(p))}

\* A non-prepared write to the Credentials characteristic: the peer sends the
\* next bytes of the payload it is sending, or starts a payload of ids.
WriteCredOf(ids, cuts) ==
  /\ ble_up /\ is_connected
  /\ \E p \in ids, begin \in BOOLEAN, need_rsp \in BOOLEAN :
       /\ IF begin
          THEN IF cred_write_len <= MaxStale THEN TRUE
               ELSE cred_write_buffer[cred_write_len] = "x"
          ELSE tx.p = p /\ tx.pos < Len(Payload(p))
       /\ LET start == IF begin THEN 0 ELSE tx.pos IN
          \E e \in Ends(p, start, cuts) :
            LET value == SubSeq(Payload(p), start + 1, e) IN
            \E r \in {gatts_write_cred(value, need_rsp)} :
            /\ ApplyEffect(r)
            /\ out' = [Out("write_cred", IF begin THEN "begin" ELSE "cont", r.rsp,
                           r.parsed, r.connects, r.sets)
                          EXCEPT !.len = Len(value), !.need_rsp = need_rsp]
            /\ UNCHANGED <<wr, wait_time, linked>>
            /\ since' = IF r.timer # "armed" \/ r.starts > 0 THEN "none"
                        ELSE IF r.stored \/ since = "buffered" THEN "buffered"
                        ELSE "rejected"
            /\ tx' = [p |-> p, pos |-> e,
                      clean |-> /\ e > start
                                /\ ~need_rsp
                                /\ is_bonded
                                /\ IF begin THEN cred_write_len = 0 ELSE tx.clean]
            /\ scn' = IF scn = 2 /\ r.parsed = <<>> /\ r.sets = <<>> THEN 2
                      ELSE IF scn = 2 /\ r.parsed # <<>> /\ r.parsed[1] \in ValidPayloads
                      THEN 3
                      ELSE -1
  /\ prep' = NoPrep

GattsWriteCred == WriteCredOf(PayloadIds, CutPoints)

GattsWriteCredCore == WriteCredOf(CoreIds, CoreCuts)

GattsPrepWrite ==
  /\ UNCHANGED <<since, wr, wait_time, linked>>
  /\ ble_up /\ is_connected
  /\ \E c \in PrepChunks, need_rsp \in BOOLEAN :
       LET value == SubSeq(Payload("V1"), c[1] + 1, c[1] + c[2])
           r == gatts_prep_write(c[1], value, need_rsp)
           before == IF out.ev = "exec_write" THEN NoPrep ELSE prep
       IN
       /\ before.n < MaxPrep
       /\ cred_write_len = 0
       /\ ApplyEffect(r)
       /\ out' = Out("prep_write", IF need_rsp THEN "need_rsp" ELSE "no_rsp", r.rsp,
                     r.parsed, r.connects, r.sets)
       /\ prep' = IF is_bonded
                  THEN [n |-> before.n + 1, img |-> Overlay(before.img, c[1], value)]
                  ELSE NoPrep
  /\ tx' = Unclean
  /\ scn' = -1

GattsExecWrite ==
  /\ UNCHANGED <<since, wr, wait_time, linked>>
  /\ ble_up /\ is_connected
  /\ \E flag \in {"EXEC", "CANCEL"} :
       \E r \in {gatts_exec_write(flag)} :
       /\ ApplyEffect(r)
       /\ out' = Out("exec_write", flag, r.rsp, r.parsed, r.connects, r.sets)
  /\ tx' = Unclean
  /\ scn' = -1
  /\ UNCHANGED prep

GattsWriteCccd ==
  /\ UNCHANGED <<since, wr, wait_time, linked>>
  /\ ble_up /\ is_connected
  /\ \E which \in {"STATE_CFG", "STATUS_CFG"}, descr_value \in {0, 1} :
       \E r \in {gatts_write_cccd(which, descr_value)} :
       /\ ApplyEffect(r)
       /\ out' = Out("write_cccd", which \o (IF descr_value = 1 THEN "=1" ELSE "=0"),
                     r.rsp, r.parsed, r.connects, r.sets)
  /\ tx' = Unclean
  /\ prep' = NoPrep
  /\ scn' = -1

CredTimeout ==
  /\ UNCHANGED <<since, wr, wait_time, linked>>
  /\ cred_timeout_timer = "armed"
  /\ \E r \in {cred_timeout_callback} :
     /\ ApplyEffect(r)
     /\ out' = Out("timeout", "", r.rsp, r.parsed, r.connects, r.sets)
  /\ tx' = Unclean
  /\ prep' = NoPrep
  /\ scn' = -1

\* ------------------------------------------------------------------------
\* The write handler and the timer task.  esp_timer runs cred_timeout_callback
\* in its own task, of higher priority than the BT task that runs
\* gatts_event_handler; cred_write_buffer and cred_write_len are plain
\* statics shared by the two.
\* ------------------------------------------------------------------------
\* The tail of the completing branch: esp_timer_stop,
\* handle_wifi_credentials(cred_write_buffer, cred_write_len), cred_write_len = 0.
\* mem is the buffer's memory and len the length the call is given.
gatts_write_cred_resumed(mem, len) ==
  LET data == SubSeq(mem, 1, len)
      h == handle_wifi_credentials(data)
  IN [buf |-> <<>>,
      timer |-> IF cred_timeout_timer # "NULL" THEN "stopped" ELSE "NULL",
      sets |-> h.sets, parsed |-> <<data>>, connects |-> h.connects, rsp |-> 0]

\* The write handler has stored a fragment of V1 that ends the payload, has
\* answered, and has found the last byte to be '}'; the timer task runs before
\* it goes on.
WriteCredTest ==
  /\ ble_up /\ is_connected /\ is_bonded
  /\ wr = BtcIdle
  /\ tx.p = "V1" /\ tx.pos < Len(Payload("V1"))
  /\ LET value == SubSeq(Payload("V1"), tx.pos + 1, Len(Payload("V1")))
         buf == cred_write_buffer \o value
     IN /\ cred_write_len + Len(value) <= MAX_CRED_BUFFER_SIZE
        /\ buf[Len(buf)] = "}"
        /\ cred_write_buffer' = buf
        /\ wr' = [pc |-> "dispatch", data |-> buf]
        /\ out' = [Out("write_cred", "test", 0, <<>>, <<>>, <<>>)
                     EXCEPT !.len = Len(value)]
        /\ tx' = [tx EXCEPT !.pos = Len(Payload("V1"))]
  /\ scn' = -1
  /\ prep' = NoPrep
  /\ UNCHANGED <<since, wait_time, linked, is_connected, is_bonded, cred_timeout_timer,
                 advertising, ble_up, prov>>
  /\ UNCHANGED wifiVars
  /\ UNCHANGED mainVars

\* The write handler goes on.  cred_write_len is not volatile: the call is given
\* the length the handler holds in a register or the one it reads again.
WriteCredDispatch ==
  /\ wr.pc = "dispatch"
  /\ \E len \in {Len(wr.data), cred_write_len} :
       \E r \in {gatts_write_cred_resumed(wr.data, len)} :
       /\ ApplyEffect(r)
       /\ out' = Out("write_cred", "resume", r.rsp, r.parsed, r.connects, r.sets)
  /\ wr' = BtcIdle
  /\ since' = "none"
  /\ UNCHANGED <<wait_time, linked>>
  /\ tx' = Unclean
  /\ scn' = -1
  /\ prep' = NoPrep

\* ------------------------------------------------------------------------
\* WiFi event handler (wifi_manager.c)
\* ------------------------------------------------------------------------
AuthReasons == {"AUTH_FAIL", "4WAY_HANDSHAKE_TIMEOUT", "HANDSHAKE_TIMEOUT"}

ApReasons == {"NO_AP_FOUND", "BEACON_TIMEOUT"}

Reasons == AuthReasons \cup ApReasons \cup {"ASSOC_LEAVE"}

\* WIFI_EVENT_STA_DISCONNECTED with the retry test given as a limit
sta_disconnected_upto(reason, limit) ==
  IF s_retry_num < limit
  THEN [s_is_connected |-> FALSE, s_retry_num |-> s_retry_num + 1,
        wifi_drv |-> "connecting",
        sets |-> set_and_notify("WIFI_CONNECTING", "STATUS_SUCCESS",
                     "Connecting... (attempt " \o ToString(s_retry_num + 1) \o "/"
                       \o ToString(MAX_RETRY_ATTEMPTS) \o ")")]
  ELSE [s_is_connected |-> FALSE, s_retry_num |-> s_retry_num,
        wifi_drv |-> "idle",
        sets |-> IF reason \in AuthReasons
                 THEN set_and_notify("WIFI_FAILED", "STATUS_ERROR_WIFI_AUTH_FAILED",
                                     "Authentication failed - check password")
                 ELSE IF reason \in ApReasons
                 THEN set_and_notify("WIFI_FAILED", "STATUS_ERROR_WIFI_NO_AP_FOUND",
                                     "Access point not found - check SSID")
                 ELSE set_and_notify("WIFI_FAILED", "STATUS_ERROR_WIFI_TIMEOUT",
                                     "Connection timeout")]

\* WIFI_EVENT_STA_DISCONNECTED retrying while s_retry_num <= MAX_RETRY_ATTEMPTS.
wifi_sta_disconnected_one_more(reason) ==
  sta_disconnected_upto(reason, MAX_RETRY_ATTEMPTS + 1)

\* WIFI_EVENT_STA_DISCONNECTED taking every reason for the default one.
wifi_sta_disconnected_default_code(reason) ==
  sta_disconnected_upto("ASSOC_LEAVE", MAX_RETRY_ATTEMPTS)

\* WIFI_EVENT_STA_DISCONNECTED
wifi_sta_disconnected(reason) == sta_disconnected_upto(reason, MAX_RETRY_ATTEMPTS)

\* IP_EVENT_STA_GOT_IP passing through WIFI_CONNECTED before PROVISIONED.
ip_sta_got_ip_two_steps(save_ok) ==
  [s_retry_num |-> 0, s_is_connected |-> TRUE, wifi_drv |-> "connected",
   nvs |-> <<pending_ssid, pending_password>>,
   pending_ssid |-> <<>>, pending_password |-> <<>>,
   sets |-> <<provisioning_state_set("WIFI_CONNECTED", "STATUS_SUCCESS", "ip"),
              provisioning_state_set("PROVISIONED", "STATUS_SUCCESS", "ip")>>]

\* IP_EVENT_STA_GOT_IP giving the connection up when the save fails.
ip_sta_got_ip_rolling_back(save_ok) ==
  IF save_ok
  THEN [s_retry_num |-> 0, s_is_connected |-> TRUE, wifi_drv |-> "connected",
        nvs |-> <<pending_ssid, pending_password>>,
        pending_ssid |-> <<>>, pending_password |-> <<>>,
        sets |-> set_and_notify("PROVISIONED", "STATUS_SUCCESS", "ip")]
  ELSE [s_retry_num |-> 0, s_is_connected |-> FALSE, wifi_drv |-> "idle",
        nvs |-> nvs,
        pending_ssid |-> pending_ssid, pending_password |-> pending_password,
        sets |-> set_and_notify("ERROR", "STATUS_ERROR_STORAGE_FAILED",
                                "Failed to save credentials")]

\* IP_EVENT_STA_GOT_IP; save_ok is the result of save_credentials_to_nvs.  The
\* handler makes no call into the driver: the station stays connected.
ip_sta_got_ip(save_ok) ==
  IF save_ok
  THEN [s_retry_num |-> 0, s_is_connected |-> TRUE, wifi_drv |-> "connected",
        nvs |-> <<pending_ssid, pending_password>>,
        pending_ssid |-> <<>>, pending_password |-> <<>>,
        sets |-> set_and_notify("PROVISIONED", "STATUS_SUCCESS", "ip")]
  ELSE [s_retry_num |-> 0, s_is_connected |-> TRUE, wifi_drv |-> "connected",
        nvs |-> nvs,
        pending_ssid |-> pending_ssid, pending_password |-> pending_password,
        sets |-> set_and_notify("ERROR", "STATUS_ERROR_STORAGE_FAILED",
                                "Failed to save credentials")]

WifiStaDisconnected ==
  /\ UNCHANGED <<since, wr, wait_time, linked>>
  /\ wifi_drv \in {"connecting", "connected"}
  /\ \E reason \in Reasons :
       \E r \in {wifi_sta_disconnected(reason)} :
       /\ s_is_connected' = r.s_is_connected
       /\ s_retry_num' = r.s_retry_num
       /\ wifi_drv' = r.wifi_drv
       /\ prov' = AfterSets(r.sets)
       /\ out' = Out("wifi_disconnected",
                     IF s_retry_num < MAX_RETRY_ATTEMPTS THEN "" ELSE reason,
                     0, <<>>, <<>>, r.sets)
  /\ scn' = -1
  /\ prep' = NoPrep
  /\ UNCHANGED <<pending_ssid, pending_password, nvs, wifi_config, tx>>
  /\ UNCHANGED bleVars
  /\ UNCHANGED mainVars

IpStaGotIp ==
  /\ UNCHANGED <<since, wr, wait_time>>
  /\ linked' = (linked \/ main_pc = "wait")
  /\ wifi_drv = "connecting"
  /\ \E save_ok \in BOOLEAN :
       \E r \in {ip_sta_got_ip(save_ok)} :
       /\ s_retry_num' = r.s_retry_num
       /\ s_is_connected' = r.s_is_connected
       /\ wifi_drv' = r.wifi_drv
       /\ nvs' = r.nvs
       /\ pending_ssid' = r.pending_ssid
       /\ pending_password' = r.pending_password
       /\ prov' = AfterSets(r.sets)
       /\ out' = Out("got_ip", IF save_ok THEN "saved" ELSE "save_failed", 0,
                     <<>>, <<>>, r.sets)
       /\ scn' = IF scn = 3 /\ save_ok THEN 4 ELSE -1
  /\ prep' = NoPrep
  /\ UNCHANGED <<tx, wifi_config>>
  /\ UNCHANGED bleVars
  /\ UNCHANGED mainVars

\* ------------------------------------------------------------------------
\* app_main's loops (main.c)
\* ------------------------------------------------------------------------
\* The provisioning loop sees PROV_STATE_PROVISIONED: post-provisioning start-up,
\* ble_provisioning_deinit, then the normal-operation loop.
MainProvisioned ==
  /\ UNCHANGED <<since, wr, wait_time, linked>>
  /\ main_pc = "poll"
  /\ prov.state = "PROVISIONED"
  /\ main_pc' = "normal"
  /\ ble_up' = FALSE
  /\ advertising' = FALSE
  /\ out' = Out("main_provisioned", "", 0, <<>>, <<>>, <<>>)
  /\ scn' = -1
  /\ prep' = NoPrep
  /\ UNCHANGED <<is_connected, is_bonded, cred_write_buffer, cred_timeout_timer, prov,
                 stored_ssid, stored_password, tx>>
  /\ UNCHANGED wifiVars

\* The normal-operation loop finds WiFi down and reconnects.
MainReconnect ==
  /\ UNCHANGED <<since, wr, wait_time, linked>>
  /\ main_pc = "normal"
  /\ ~s_is_connected
  /\ \E c \in {wifi_manager_connect(stored_ssid, stored_password)} :
     /\ ApplyConnects(<< <<stored_ssid, stored_password>> >>)
     /\ prov' = AfterSets(c.sets)
     /\ out' = Out("main_reconnect", "", 0, <<>>, << <<stored_ssid, stored_password>> >>,
                   c.sets)
  /\ scn' = -1
  /\ prep' = NoPrep
  /\ UNCHANGED <<s_is_connected, nvs, tx>>
  /\ UNCHANGED bleVars
  /\ UNCHANGED mainVars

\* ------------------------------------------------------------------------
\* app_main's start (main.c): stored credentials are tried before BLE is set up
\* ------------------------------------------------------------------------
\* The state after wifi_manager_init: storage is empty or holds a pair.
InitBoot ==
  /\ is_connected = FALSE
  /\ is_bonded = FALSE
  /\ cred_write_buffer = <<>>
  /\ cred_timeout_timer = "NULL"
  /\ advertising = FALSE
  /\ ble_up = FALSE
  /\ prov = provisioning_state_set("IDLE", "STATUS_SUCCESS", "")
  /\ s_retry_num = 0
  /\ s_is_connected = FALSE
  /\ pending_ssid = <<>>
  /\ pending_password = <<>>
  /\ nvs \in {<<>>, << <<"a">>, <<"b">> >>}
  /\ wifi_drv = "idle"
  /\ wifi_config = <<<<>>, <<>>>>
  /\ main_pc = "boot"
  /\ stored_ssid = <<>>
  /\ stored_password = <<>>
  /\ out = [ev |-> "boot", arg |-> "", len |-> 0, rsp |-> 0, parsed |-> <<>>,
            connects |-> <<>>, sets |-> <<>>, sends |-> <<>>, from |-> "IDLE",
            need_rsp |-> FALSE]
  /\ tx = NoTx
  /\ prep = NoPrep
  /\ scn = -1
  /\ since = "none"
  /\ wr = BtcIdle
  /\ wait_time = 0
  /\ linked = FALSE

wifi_manager_get_stored_credentials ==
  IF nvs = <<>>
  THEN [ret |-> "ESP_ERR_NVS_NOT_FOUND", ssid |-> <<>>, password |-> <<>>]
  ELSE [ret |-> "ESP_OK", ssid |-> nvs[1], password |-> nvs[2]]

\* app_main after the wait loop, taking the station for connected.
app_main_stored_check_unpolled(connected) ==
  [main_pc |-> "returned",
   sets |-> <<provisioning_state_set("PROVISIONED", "STATUS_SUCCESS",
                                     "Connected using stored credentials")>>,
   stored_password |-> stored_password]

\* app_main after the wait loop: connected is wifi_manager_is_connected().
app_main_stored_check(connected) ==
  IF connected
  THEN [main_pc |-> "returned",
        sets |-> <<provisioning_state_set("PROVISIONED", "STATUS_SUCCESS",
                                          "Connected using stored credentials")>>,
        stored_password |-> stored_password]
  ELSE [main_pc |-> "ble_init", sets |-> <<>>, stored_password |-> <<>>]

\* Stored credentials are read and, if there are any, the station is started.
MainBoot ==
  /\ main_pc = "boot"
  /\ \E g \in {wifi_manager_get_stored_credentials} :
       IF g.ret = "ESP_OK"
       THEN \E c \in {wifi_manager_connect(g.ssid, g.password)} :
              /\ ApplyConnects(<< <<g.ssid, g.password>> >>)
              /\ prov' = AfterSets(c.sets)
              /\ out' = Out("main_boot", "stored", 0, <<>>,
                            << <<g.ssid, g.password>> >>, c.sets)
              /\ stored_ssid' = g.ssid
              /\ stored_password' = g.password
              /\ main_pc' = "wait"
       ELSE /\ out' = Out("main_boot", "none", 0, <<>>, <<>>, <<>>)
            /\ main_pc' = "ble_init"
            /\ UNCHANGED <<prov, stored_ssid, stored_password, s_retry_num,
                           pending_ssid, pending_password, wifi_drv, wifi_config>>
  /\ wait_time' = 0
  /\ UNCHANGED <<since, wr, linked, scn, prep, tx, s_is_connected, nvs>>
  /\ UNCHANGED bleVars

\* One turn of the wait loop: a poll that finds the station down is followed by
\* a second's delay; the loop ends when the station is up or after
\* STORED_WAIT_POLLS polls.
MainWait ==
  /\ main_pc = "wait"
  /\ IF ~s_is_connected /\ wait_time < STORED_WAIT_POLLS
     THEN /\ wait_time' = wait_time + 1
          /\ main_pc' = "wait"
     ELSE /\ wait_time' = wait_time
          /\ main_pc' = "check"
  /\ out' = Out("main_wait", "", 0, <<>>, <<>>, <<>>)
  /\ UNCHANGED <<since, wr, linked, scn, prep, tx, prov, stored_ssid, stored_password>>
  /\ UNCHANGED bleVars
  /\ UNCHANGED wifiVars

\* The test after the wait loop: PROVISIONED and return, or on to BLE.
MainCheck ==
  /\ main_pc = "check"
  /\ \E r \in {app_main_stored_check(s_is_connected)} :
       /\ main_pc' = r.main_pc
       /\ stored_password' = r.stored_password
       /\ prov' = AfterSets(r.sets)
       /\ out' = Out("main_check", "", 0, <<>>, <<>>, r.sets)
  /\ UNCHANGED <<since, wr, wait_time, linked, scn, prep, tx, stored_ssid>>
  /\ UNCHANGED bleVars
  /\ UNCHANGED wifiVars

\* ble_provisioning_init and ble_provisioning_start_advertising; app_main returns
\* if either fails.
MainBleStart ==
  /\ main_pc = "ble_init"
  /\ \E ok \in BOOLEAN :
       /\ ble_up' = ok
       /\ advertising' = ok
       /\ main_pc' = IF ok THEN "poll" ELSE "returned"
       /\ out' = Out("main_ble_start", IF ok THEN "started" ELSE "failed", 0,
                     <<>>, <<>>, <<>>)
  /\ UNCHANGED <<since, wr, wait_time, linked, scn, prep, tx, prov, stored_ssid,
                 stored_password, is_connected, is_bonded, cred_write_buffer,
                 cred_timeout_timer>>
  /\ UNCHANGED wifiVars

\* ------------------------------------------------------------------------
\* The send functions as a caller outside the observer may use them
\* (ble_provisioning.h)
\* ------------------------------------------------------------------------
StatusTexts == {"", "ready"}

SendStateCall ==
  /\ UNCHANGED <<since, wr, wait_time, linked>>
  /\ \E state \in 0..3 :
       out' = [ev |-> "send_state", arg |-> "", len |-> 0, rsp |-> 0, parsed |-> <<>>,
               connects |-> <<>>, sets |-> <<>>,
               sends |-> <<ble_provisioning_send_state(state, is_connected, ble_up)>>,
               from |-> prov.state, need_rsp |-> FALSE]
  /\ tx' = Unclean
  /\ prep' = NoPrep
  /\ scn' = -1
  /\ UNCHANGED <<prov>>
  /\ UNCHANGED bleVars
  /\ UNCHANGED wifiVars
  /\ UNCHANGED mainVars

SendStatusCall ==
  /\ UNCHANGED <<since, wr, wait_time, linked>>
  /\ \E text \in StatusTexts :
       out' = [ev |-> "send_status", arg |-> "", len |-> 0, rsp |-> 0, parsed |-> <<>>,
               connects |-> <<>>, sets |-> <<>>,
               sends |-> <<ble_provisioning_send_status(
                             Send("status", -1, "text", "", "", text, FALSE),
                             is_connected, ble_up)>>,
               from |-> prov.state, need_rsp |-> FALSE]
  /\ tx' = Unclean
  /\ prep' = NoPrep
  /\ scn' = -1
  /\ UNCHANGED <<prov>>
  /\ UNCHANGED bleVars
  /\ UNCHANGED wifiVars
  /\ UNCHANGED mainVars

\* The whole system, with the peer of CoreIds.
Next ==
  \/ GattsConnect
  \/ GattsDisconnect
  \/ GapAuthCmpl
  \/ GattsWriteCredCore
  \/ GattsExecWrite
  \/ GattsWriteCccd
  \/ CredTimeout
  \/ WifiStaDisconnected
  \/ IpStaGotIp
  \/ MainProvisioned
  \/ MainReconnect

Spec == Init /\ [][Next]_vars

\* The BLE handlers alone, with the whole payload catalogue.  The WiFi events and
\* app_main's loops neither read nor write the reassembly buffer, the timer or
\* the bonding flag.
NextBle ==
  \/ GattsConnect
  \/ GattsDisconnect
  \/ GapAuthCmpl
  \/ GattsWriteCred
  \/ GattsPrepWrite
  \/ GattsExecWrite
  \/ GattsWriteCccd
  \/ CredTimeout

SpecBle == Init /\ [][NextBle]_vars

\* The timer task against the write handler: BT events arrive while the BT task
\* is idle, the timer fires at any time.
NextRace ==
  \/ wr = BtcIdle /\ GattsConnect
  \/ wr = BtcIdle /\ GattsDisconnect
  \/ wr = BtcIdle /\ GapAuthCmpl
  \/ wr = BtcIdle /\ GattsWriteCredCore
  \/ WriteCredTest
  \/ WriteCredDispatch
  \/ CredTimeout

SpecRace == Init /\ [][NextRace]_vars

\* app_main from its start to the provisioning loop, with the WiFi events.
NextBoot ==
  \/ MainBoot
  \/ MainWait
  \/ MainCheck
  \/ MainBleStart
  \/ WifiStaDisconnected
  \/ IpStaGotIp

SpecBoot == InitBoot /\ [][NextBoot]_vars

\* The provisioning loop against the handlers that set the state.  The loop
\* runs for ever, a poll a second: a state that stays PROVISIONED is seen.
NextPoll ==
  \/ GattsConnect
  \/ GattsDisconnect
  \/ GapAuthCmpl
  \/ GattsWriteCredCore
  \/ GattsWriteCccd
  \/ WifiStaDisconnected
  \/ IpStaGotIp
  \/ MainProvisioned

\* The driver reports the end of every connection attempt.
WifiAttemptEnds ==
  /\ wifi_drv = "connecting"
  /\ (WifiStaDisconnected \/ IpStaGotIp)

SpecPoll ==
  Init /\ [][NextPoll]_vars /\ WF_vars(MainProvisioned) /\ WF_vars(WifiAttemptEnds)

\* The link's life and the send functions called at any moment of it.
NextSend ==
  \/ GattsConnect
  \/ GattsDisconnect
  \/ GapSecReq
  \/ GapAuthCmpl
  \/ GattsWriteCccd
  \/ GattsWriteCredCore
  \/ CredTimeout
  \/ SendStateCall
  \/ SendStatusCall

SpecSend == Init /\ [][NextSend]_vars

\* ------------------------------------------------------------------------
\* Properties
\* ------------------------------------------------------------------------
WifiConnectorVars == <<pending_ssid, pending_password, s_retry_num, wifi_drv,
                       wifi_config>>

\* The bytes of the credential write a step delivers, read off the peer's cursor.
Written ==
  SubSeq(Payload(tx'.p), (IF out'.arg = "begin" THEN 0 ELSE tx.pos) + 1, tx'.pos)

\* C1: a non-prepared write to the Credentials characteristic on an unbonded link
\* never invokes handle_wifi_credentials and never calls wifi_manager_connect,
\* whatever the payload.
C1_UnbondedWriteNeverParsed ==
  [][(out'.ev = "write_cred" /\ ~is_bonded)
       => /\ out'.parsed = <<>>
          /\ out'.connects = <<>>
          /\ UNCHANGED WifiConnectorVars]_vars

\* A whole valid payload has been written in one piece on an unbonded link.
C1_Witness ==
  /\ out.ev = "write_cred" /\ out.arg = "begin"
  /\ ~is_bonded
  /\ tx.p = "V1" /\ tx.pos = Len(Payload("V1"))
  /\ wifi_drv = "idle"

\* C2: a credential write on an unbonded link leaves the reassembly buffer, its
\* length and the timer as they were, and sets the state to Error with the
\* message "Device must be bonded before sending credentials".
C2_UnbondedWriteRejected ==
  [][(out'.ev = "write_cred" /\ ~is_bonded)
       => /\ cred_write_buffer' = cred_write_buffer
          /\ cred_timeout_timer' = cred_timeout_timer
          /\ out'.sets = <<"ERROR">>
          /\ prov'.state = "ERROR"
          /\ prov'.message = "Device must be bonded before sending credentials"]_vars

\* A non-empty unbonded write has been rejected: nothing buffered, no timer.
C2_Witness ==
  /\ out.ev = "write_cred" /\ out.len > 0
  /\ ~is_bonded
  /\ cred_write_len = 0 /\ cred_timeout_timer = "NULL"
  /\ prov.state = "ERROR"
  /\ prov.message = "Device must be bonded before sending credentials"

\* A step of a transfer of payload p that began on an empty buffer of a bonded
\* link and has gone on in consecutive non-empty writes without response
\* dispatches p, whole, if it delivers p's last byte, and nothing otherwise.
ReassembledAtEnd(p) ==
  (out'.ev = "write_cred" /\ tx'.clean /\ tx'.p = p)
    => out'.parsed = (IF tx'.pos = Len(Payload(p)) THEN <<Payload(p)>> ELSE <<>>)

\* C3 as stated: every flat payload with string members, split in any way into
\* non-empty fragments written without response on a bonded link from an empty
\* buffer, is dispatched exactly once, whole, by its last fragment and by no
\* earlier one.
C3_AnySplitReassembled == [][\A p \in FlatIds : ReassembledAtEnd(p)]_vars

NoInnerBrace(s) == \A i \in 1..(Len(s) - 1) : s[i] # "}"

\* C3: every flat payload with string members that holds no '}' byte before its
\* last, split in any way into non-empty fragments written without response on a
\* bonded link from an empty buffer, is dispatched exactly once, whole, by its
\* last fragment and by no earlier one.
C3_SplitReassembled ==
  [][\A p \in FlatIds : NoInnerBrace(Payload(p)) => ReassembledAtEnd(p)]_vars

\* The last of three fragments of V1 has dispatched V1.
C3_Witness ==
  /\ out.ev = "write_cred" /\ out.arg = "cont" /\ out.len = 2
  /\ tx.clean /\ tx.p = "V1" /\ tx.pos = Len(Payload("V1"))
  /\ out.parsed = <<Payload("V1")>>

C5_OverflowResets ==
  [][/\ (out'.ev = "write_cred" /\ is_bonded
           /\ cred_write_len + out'.len > MAX_CRED_BUFFER_SIZE)
        => /\ cred_write_buffer' = <<>>
           /\ out'.parsed = <<>>
           /\ out'.connects = <<>>
           /\ out'.sets = <<"ERROR">>
           /\ prov'.state = "ERROR"
     /\ (out'.ev = "write_cred" /\ is_bonded
           /\ out.ev = "write_cred" /\ out.sets = <<"ERROR">> /\ out.parsed = <<>>
           /\ out'.len <= MAX_CRED_BUFFER_SIZE)
        => \/ cred_write_buffer' = Written /\ out'.parsed = <<>>
           \/ cred_write_buffer' = <<>> /\ out'.parsed = <<Written>>]_vars

\* A fragment that fits the buffer on its own has overflowed it.
C5_Witness ==
  /\ out.ev = "write_cred" /\ out.len > 0 /\ out.len <= MAX_CRED_BUFFER_SIZE
  /\ is_bonded
  /\ out.sets = <<"ERROR">> /\ out.parsed = <<>>
  /\ prov.message = "Credentials too long"
  /\ cred_write_len = 0

\* C6: an execute-write commit that follows prepared fragments written on a
\* bonded link dispatches exactly the image the fragments describe, of length the
\* greatest offset + length.
C6_LongWriteReassembled ==
  [][(out'.ev = "exec_write" /\ out'.arg = "EXEC"
        /\ out.ev = "prep_write" /\ prep.n > 0)
       => out'.parsed = <<prep.img>>]_vars

\* C7: an execute-write with the cancel flag leaves the buffer empty and invokes
\* neither the parser nor the WiFi connector, after any number of prepared
\* fragments.
C7_CancelDiscards ==
  (out.ev = "exec_write" /\ out.arg = "CANCEL")
    => /\ cred_write_len = 0
       /\ out.parsed = <<>>
       /\ out.connects = <<>>
       /\ out.sets = <<>>

\* A cancel has followed MaxPrep prepared fragments.
C7_Witness ==
  /\ out.ev = "exec_write" /\ out.arg = "CANCEL"
  /\ prep.n = MaxPrep
  /\ cred_write_len = 0

\* C8: from Idle, connect, successful bonding, delivery of a valid payload and
\* the acquisition of an IP address with the credentials saved take the state
\* through BLE_CONNECTED, CREDENTIALS_RECEIVED, WIFI_CONNECTING and PROVISIONED,
\* in this order and through no other state.
C8_HappyPath ==
  /\ scn = 0 => prov.state = "IDLE"
  /\ scn = 1 => out.sets = <<"BLE_CONNECTED">> /\ prov.state = "BLE_CONNECTED"
  /\ scn = 2 => out.sets = <<>> /\ prov.state = "BLE_CONNECTED"
  /\ scn = 3 => /\ out.sets = <<"CREDENTIALS_RECEIVED", "WIFI_CONNECTING">>
                /\ prov.state = "WIFI_CONNECTING"
  /\ scn = 4 => out.sets = <<"PROVISIONED">> /\ prov.state = "PROVISIONED"

\* The run has ended with the IP address acquired and the credentials saved.
C8_Witness ==
  /\ scn = 4
  /\ out.ev = "got_ip"
  /\ nvs = <<<<"a">>, <<"b">>>>

\* The status a rejected payload of the catalogue is to raise.
ExpectedStatus ==
  [id \in MalformedIds |->
     IF id = "NotJson" THEN "STATUS_ERROR_INVALID_JSON"
     ELSE IF id \in {"NoSsid", "SsidNum", "Empty"} THEN "STATUS_ERROR_MISSING_SSID"
     ELSE "STATUS_ERROR_MISSING_PASSWORD"]

RejectedWith(status) ==
  /\ out.sets = <<"ERROR">>
  /\ prov.state = "ERROR"
  /\ prov.status = status
  /\ out.connects = <<>>

\* C9: a dispatched payload that is not JSON raises Error with INVALID_JSON; one
\* whose ssid member is absent or not a string raises Error with MISSING_SSID;
\* one whose password member is absent or not a string raises Error with
\* MISSING_PASSWORD; in each case wifi_manager_connect is not called.
C9_MalformedRejected ==
  out.parsed # <<>>
    => LET data == out.parsed[1]
           root == cJSON_Parse(data)
       IN
       /\ IF ~root.ok THEN RejectedWith("STATUS_ERROR_INVALID_JSON")
          ELSE IF ~cJSON_IsString(cJSON_GetObjectItem(root, SsidName))
          THEN RejectedWith("STATUS_ERROR_MISSING_SSID")
          ELSE IF ~cJSON_IsString(cJSON_GetObjectItem(root, PasswordName))
          THEN RejectedWith("STATUS_ERROR_MISSING_PASSWORD")
          ELSE TRUE
       /\ \A id \in MalformedIds :
            data = Payload(id) => RejectedWith(ExpectedStatus[id])

\* The payload whose password is a number has been dispatched.
C9_Witness ==
  /\ out.parsed = <<Payload("PwNum")>>
  /\ prov.state = "ERROR"
  /\ prov.status = "STATUS_ERROR_MISSING_PASSWORD"
  /\ wifi_drv = "idle"

\* C10: once the state is PROVISIONED no event changes it.
C10_ProvisionedTerminal ==
  [][prov.state = "PROVISIONED" => prov'.state = "PROVISIONED"]_vars

\* C11: a disconnect clears the connection and the bonded flag and leaves the
\* reassembly buffer empty, so that no byte buffered before it can be dispatched
\* afterwards.
C11_DisconnectDiscards ==
  out.ev = "disconnect"
    => /\ ~is_connected
       /\ ~is_bonded
       /\ cred_write_len = 0

\* C12: a disconnect while the state is not PROVISIONED restarts advertising and
\* sets the state to IDLE; a disconnect while the state is PROVISIONED leaves
\* advertising off and the state PROVISIONED.
C12_DisconnectByState ==
  [][out'.ev = "disconnect"
       => IF prov.state # "PROVISIONED"
          THEN advertising' /\ prov'.state = "IDLE" /\ out'.sets = <<"IDLE">>
          ELSE ~advertising' /\ prov' = prov /\ out'.sets = <<>>]_vars

\* The peer has disconnected from a provisioned device.
C12_Witness ==
  /\ out.ev = "disconnect"
  /\ prov.state = "PROVISIONED"
  /\ ~advertising /\ ~is_connected

\* The byte the State characteristic is to carry for each internal state.
ExpectedByte ==
  [s \in ProvStates |->
     CASE s \in {"IDLE", "BLE_CONNECTED", "CREDENTIALS_RECEIVED"} -> 0
       [] s = "WIFI_CONNECTING" -> 1
       [] s \in {"WIFI_CONNECTED", "PROVISIONED"} -> 2
       [] s \in {"WIFI_FAILED", "ERROR"} -> 3]

IsStateSend(x) == x.ch = "state"

StateSends == SelectSeq(out.sends, IsStateSend)

\* C13: the byte sent on the State characteristic is a function of the state
\* just set: IDLE, BLE_CONNECTED, CREDENTIALS_RECEIVED give 0, WIFI_CONNECTING 1,
\* WIFI_CONNECTED and PROVISIONED 2, WIFI_FAILED and ERROR 3; nothing else is sent.
C13_StateByteMapping ==
  /\ \A s \in ProvStates : app_state(s) = ExpectedByte[s]
  /\ \A i \in 1..Len(StateSends) : StateSends[i].byte \in 0..3
  /\ StateSends # <<>>
       => /\ Len(StateSends) = Len(out.sets)
          /\ \A i \in 1..Len(StateSends) :
               StateSends[i].byte = ExpectedByte[out.sets[i]]

\* A valid payload has been dispatched with the peer connected: 0 then 1 went out.
C13_Witness ==
  /\ out.sets = <<"CREDENTIALS_RECEIVED", "WIFI_CONNECTING">>
  /\ Len(StateSends) = 2
  /\ StateSends[1].byte = 0 /\ StateSends[1].ok
  /\ StateSends[2].byte = 1 /\ StateSends[2].ok

\* C17: send_state and send_status fail and emit nothing while no peer is
\* connected, and emit exactly one indication, on the State respectively the
\* Status characteristic, while one is.
C17_SendNeedsPeer ==
  /\ out.ev = "send_state"
       => /\ Len(out.sends) = 1
          /\ out.sends[1].ch = "state"
          /\ out.sends[1].ok = (is_connected /\ ble_up)
  /\ out.ev = "send_status"
       => /\ Len(out.sends) = 1
          /\ out.sends[1].ch = "status"
          /\ out.sends[1].ok = (is_connected /\ ble_up)

\* send_state has failed after a disconnect.
C17_Witness ==
  /\ out.ev = "send_state"
  /\ ~is_connected
  /\ ~out.sends[1].ok
  /\ prov.message = "BLE disconnected, restarting advertising"

\* C14: every WiFi disconnected event that finds fewer than MAX_RETRY_ATTEMPTS
\* retries used starts a reconnect attempt, counts it and sets WIFI_CONNECTING;
\* the event that finds them used up sets WIFI_FAILED and starts no attempt;
\* the counter stays within 0..MAX_RETRY_ATTEMPTS and is put back to 0 by
\* wifi_manager_connect and by the IP-acquired event.
C14_RetryThenFail ==
  [][/\ s_retry_num \in 0..MAX_RETRY_ATTEMPTS
     /\ s_retry_num' \in 0..MAX_RETRY_ATTEMPTS
     /\ out'.ev = "wifi_disconnected"
          => IF s_retry_num < MAX_RETRY_ATTEMPTS
             THEN /\ wifi_drv' = "connecting"
                  /\ s_retry_num' = s_retry_num + 1
                  /\ prov'.state = "WIFI_CONNECTING"
                  /\ out'.sets = <<"WIFI_CONNECTING">>
             ELSE /\ wifi_drv' = "idle"
                  /\ s_retry_num' = s_retry_num
                  /\ prov'.state = "WIFI_FAILED"
                  /\ out'.sets = <<"WIFI_FAILED">>
     /\ out'.connects # <<>> => s_retry_num' = 0 /\ wifi_drv' = "connecting"
     /\ out'.ev = "got_ip" => s_retry_num' = 0]_vars

\* The sixth disconnected event after a connect has given up.
C14_Witness ==
  /\ out.ev = "wifi_disconnected"
  /\ prov.state = "WIFI_FAILED"
  /\ s_retry_num = MAX_RETRY_ATTEMPTS
  /\ wifi_drv = "idle"

\* C15: whenever the IP-acquired handler has set PROVISIONED, storage holds the
\* credentials the station connected with (those of the driver's
\* configuration); it sets PROVISIONED only after a successful save.
C15_PersistedBeforeProvisioned ==
  (out.ev = "got_ip" /\ "PROVISIONED" \in {out.sets[i] : i \in DOMAIN out.sets})
    => /\ out.arg = "saved"
       /\ nvs = wifi_config

\* C16: when the save fails after IP acquisition the state becomes ERROR with
\* STORAGE_FAILED, nothing is stored, and the connection is kept:
\* wifi_manager_is_connected() is true and the station is still connected.
C16_SaveFailureKeepsLink ==
  (out.ev = "got_ip" /\ out.arg = "save_failed")
    => /\ prov.state = "ERROR"
       /\ prov.status = "STATUS_ERROR_STORAGE_FAILED"
       /\ out.sets = <<"ERROR">>
       /\ s_is_connected
       /\ wifi_drv = "connected"
       /\ out.connects = <<>>

\* The first connection of a provisioning run got its address and the save failed.
C16_Witness ==
  /\ out.ev = "got_ip"
  /\ out.arg = "save_failed"
  /\ prov.state = "ERROR"
  /\ s_is_connected
  /\ nvs = <<>>
  /\ pending_ssid # <<>>

\* C18: with the peer connected and bonded and the state Error or WifiFailed, a
\* valid payload written whole onto the empty buffer is parsed and drives the
\* state to CredentialsReceived and then WifiConnecting; and a bonded credential
\* write or a timeout that raises Error leaves the buffer empty for it.
C18_ErrorsRecoverable ==
  [][/\ (/\ prov.state \in {"ERROR", "WIFI_FAILED"}
         /\ is_connected /\ is_bonded
         /\ cred_write_len = 0
         /\ out'.ev = "write_cred" /\ out'.arg = "begin"
         /\ tx'.p = "V1"
         /\ Written = Payload("V1"))
        => /\ out'.parsed = <<Payload("V1")>>
           /\ out'.sets = <<"CREDENTIALS_RECEIVED", "WIFI_CONNECTING">>
           /\ out'.connects = << <<(<<"a">>), (<<"b">>)>> >>
           /\ prov'.state = "WIFI_CONNECTING"
           /\ wifi_drv' = "connecting"
           /\ is_connected' /\ is_bonded'
     /\ (/\ out'.sets = <<"ERROR">>
         /\ \/ out'.ev = "write_cred" /\ is_bonded
            \/ out'.ev = "timeout")
        => cred_write_len' = 0]_vars

\* After five retries had failed, the bonded peer wrote a valid payload afresh.
C18_Witness ==
  /\ out.ev = "write_cred" /\ out.arg = "begin"
  /\ out.from = "WIFI_FAILED"
  /\ out.parsed = <<Payload("V1")>>
  /\ prov.state = "WIFI_CONNECTING"
  /\ is_connected /\ is_bonded
  /\ s_retry_num = 0

\* C19: in every reachable state the reassembly buffer holds between 0 and
\* MAX_CRED_BUFFER_SIZE bytes: no write, prepared write, execute-write, timeout,
\* connect or disconnect stores a byte at an index beyond the capacity.
C19_BufferWithinCapacity ==
  /\ cred_write_len \in 0..MAX_CRED_BUFFER_SIZE
  /\ DOMAIN cred_write_buffer \subseteq 1..MAX_CRED_BUFFER_SIZE

\* A write has filled the buffer to its last byte.
C19_Witness ==
  /\ out.ev = "write_cred"
  /\ out.len > 0
  /\ cred_write_len = MAX_CRED_BUFFER_SIZE

\* C20: every prepared write to the Credentials characteristic that asks for a
\* response is answered with exactly one response, bonded or not.
C20_PrepWriteAcknowledged ==
  (out.ev = "prep_write" /\ out.arg = "need_rsp") => out.rsp = 1

\* C21: every execute-write is answered with exactly one response, commit and
\* cancel alike, the buffer empty or not; a commit that finds bytes in the buffer
\* dispatches them to the parser once and leaves the buffer length 0.
C21_ExecWriteAcknowledged ==
  [][out'.ev = "exec_write"
       => /\ out'.rsp = 1
          /\ (out'.arg = "EXEC" /\ cred_write_len > 0)
               => /\ out'.parsed = <<cred_write_buffer>>
                  /\ cred_write_len' = 0
          /\ (out'.arg = "EXEC" /\ cred_write_len = 0)
               => /\ out'.parsed = <<>>
                  /\ cred_write_len' = 0]_vars

\* A commit has dispatched the twelve bytes a write had left in the buffer.
C21_Witness ==
  /\ out.ev = "exec_write" /\ out.arg = "EXEC"
  /\ out.rsp = 1
  /\ Len(out.parsed) = 1 /\ Len(out.parsed[1]) = 12
  /\ cred_write_len = 0

\* C22: immediately after a connect event the reassembly buffer is empty and no
\* reassembly timeout is pending, whatever was buffered before.
C22_ConnectResets ==
  out.ev = "connect" => /\ cred_write_len = 0
                        /\ cred_timeout_timer # "armed"

\* C23: a write to the State or the Status CCCD leaves the provisioning state
\* as it was, and the write of 0x0001 to the Status CCCD sends the byte of
\* that state to the peer; the other CCCD writes send nothing.
C23_SubscribeKeepsState ==
  out.ev = "write_cccd"
    => /\ prov.state = out.from
       /\ IF out.arg = "STATUS_CFG=1"
          THEN /\ StateSends # <<>>
               /\ \A i \in DOMAIN StateSends :
                    StateSends[i].byte = ExpectedByte[out.from]
          ELSE out.sends = <<>>

Fits == cred_write_len + out'.len <= MAX_CRED_BUFFER_SIZE

Completes ==
  LET buf == cred_write_buffer \o Written IN Len(buf) > 0 /\ buf[Len(buf)] = "}"

C25_WriteAlwaysAnswered ==
  out.ev = "write_cred" => out.rsp = (IF out.need_rsp THEN 1 ELSE 0)

\* A write with response on an unbonded link: answered, and rejected.
C25_Witness ==
  /\ out.ev = "write_cred"
  /\ out.need_rsp /\ out.rsp = 1
  /\ ~is_bonded
  /\ prov.message = "Device must be bonded before sending credentials"

\* C26: once a connection attempt has concluded, in PROVISIONED, in WIFI_FAILED
\* after the retries are used up, or in ERROR after a failed save, the WiFi
\* manager's pending_ssid and pending_password are all-zero.
C26_PendingScrubbed ==
  (\/ out.ev = "got_ip"
   \/ out.ev = "wifi_disconnected" /\ out.sets = <<"WIFI_FAILED">>)
    => /\ pending_ssid = <<>>
       /\ pending_password = <<>>

C28_CredentialsOnlyFromConnected ==
  (\E i \in DOMAIN out.sets : out.sets[i] = "CREDENTIALS_RECEIVED")
    => /\ Len(out.parsed) = 1
       /\ out.parsed[1] \in ValidPayloads
       /\ out.from = "BLE_CONNECTED"

\* C29: PROVISIONED is set only by the IP-acquired event and only when the
\* state is WIFI_CONNECTING; an IP-acquired event in another state does not
\* set it.
C29_ProvisionedOnlyFromConnecting ==
  (\E i \in DOMAIN out.sets : out.sets[i] = "PROVISIONED")
    => /\ out.ev = "got_ip"
       /\ out.from = "WIFI_CONNECTING"

IsTextSend(x) == x.ch = "status" /\ x.form = "text"

TextSends == SelectSeq(out.sends, IsTextSend)

\* C30: every state change a handler makes while a peer is connected sends the
\* byte of the new state on the State characteristic and the message on the
\* Status characteristic; a state change made while no peer is connected, the
\* IDLE set by the disconnect handler included, sends nothing.
C30_ChangesNotified ==
  IF is_connected /\ ble_up
  THEN /\ Len(StateSends) = Len(out.sets)
       /\ Len(TextSends) = Len(out.sets)
       /\ \A i \in DOMAIN out.sets :
            /\ StateSends[i].ok
            /\ StateSends[i].byte = ExpectedByte[out.sets[i]]
            /\ TextSends[i].ok
  ELSE \A i \in DOMAIN out.sends : ~out.sends[i].ok

\* The station got its address while the peer was connected: byte 2 went out
\* with the message; before that, a disconnect had set IDLE silently.
C30_Witness ==
  /\ out.ev = "got_ip" /\ out.sets = <<"PROVISIONED">>
  /\ is_connected /\ ble_up
  /\ Len(StateSends) = 1
  /\ StateSends[1].byte = 2 /\ StateSends[1].ok
  /\ TextSends[1].text = "ip"

\* C31: the timeout callback never runs between two steps of the write
\* handler: when the handler dispatches, the buffer holds what it stored, the
\* parser gets exactly those bytes, and the timeout callback has not dispatched
\* them already.
C31_DispatchSerialized ==
  [][(out'.ev = "write_cred" /\ out'.arg = "resume")
       => /\ cred_write_len > 0
          /\ out'.parsed = <<cred_write_buffer>>
          /\ ~(out.ev = "timeout" /\ out.parsed = out'.parsed)]_vars

\* C32: a write rejected without reaching the parser (the peer is not bonded,
\* or the fragment overflows the buffer) is reported with a status code of its
\* own, not the one of a payload that is not JSON.
C32_RejectionCodeDistinct ==
  (out.ev = "write_cred" /\ out.parsed = <<>> /\ out.sets = <<"ERROR">>)
    => prov.status # "STATUS_ERROR_INVALID_JSON"

\* C33: when the retries are exhausted, the status code set with WIFI_FAILED
\* follows from the reason of the disconnect event being handled: an
\* authentication failure or a handshake timeout gives WIFI_AUTH_FAILED, no AP
\* found or a beacon timeout gives WIFI_NO_AP_FOUND, any other reason gives
\* WIFI_TIMEOUT.
C33_FailureCodeByLastReason ==
  (out.ev = "wifi_disconnected" /\ out.sets = <<"WIFI_FAILED">>)
    => /\ prov.state = "WIFI_FAILED"
       /\ prov.status =
            CASE out.arg \in {"AUTH_FAIL", "4WAY_HANDSHAKE_TIMEOUT", "HANDSHAKE_TIMEOUT"}
                   -> "STATUS_ERROR_WIFI_AUTH_FAILED"
              [] out.arg \in {"NO_AP_FOUND", "BEACON_TIMEOUT"}
                   -> "STATUS_ERROR_WIFI_NO_AP_FOUND"
              [] OTHER -> "STATUS_ERROR_WIFI_TIMEOUT"

C33_Witness ==
  /\ out.ev = "wifi_disconnected"
  /\ out.sets = <<"WIFI_FAILED">>
  /\ out.arg = "BEACON_TIMEOUT"
  /\ prov.status = "STATUS_ERROR_WIFI_NO_AP_FOUND"

\* C34 (as stated): at start-up, once the connection with the stored
\* credentials has succeeded within the wait window, BLE provisioning is never
\* initialised or advertised; and with no stored credentials app_main goes on
\* to BLE initialisation.
C34_StoredConnectionSkipsBle ==
  /\ linked => (~ble_up /\ ~advertising)
  /\ (out.ev = "main_boot" /\ nvs = <<>>) => main_pc = "ble_init"

\* C34 (amended): at start-up app_main connects with the stored credentials if
\* there are any and polls the station up to STORED_WAIT_POLLS times; if the
\* station is connected at the test after the loop, the state is set to
\* PROVISIONED and app_main returns with BLE never initialised; with no stored
\* credentials, or with the station down at that test, app_main initialises
\* BLE and, unless that fails, advertising starts.
C34_BootByPolledLink ==
  [][/\ (out'.ev = "main_boot")
          => IF nvs = <<>>
             THEN main_pc' = "ble_init" /\ wifi_drv' = "idle"
             ELSE /\ main_pc' = "wait"
                  /\ out'.connects = << <<nvs[1], nvs[2]>> >>
     /\ (main_pc = "wait" /\ main_pc' # "wait")
          => main_pc' = "check" /\ (s_is_connected \/ wait_time = STORED_WAIT_POLLS)
     /\ (out'.ev = "main_check")
          => IF s_is_connected
             THEN /\ prov'.state = "PROVISIONED"
                  /\ main_pc' = "returned"
             ELSE /\ main_pc' = "ble_init"
                  /\ prov' = prov
     /\ (main_pc = "ble_init" /\ main_pc' # "ble_init")
          => \/ main_pc' = "poll" /\ ble_up' /\ advertising'
             \/ main_pc' = "returned" /\ out'.arg = "failed"
     /\ (main_pc # "ble_init") => (ble_up' = ble_up /\ advertising' = advertising)
     /\ (main_pc = "returned") => main_pc' = "returned"]_vars

C34_Witness ==
  /\ out.ev = "main_check"
  /\ main_pc = "returned"
  /\ prov.state = "PROVISIONED"
  /\ nvs # <<>>
  /\ ~ble_up /\ ~advertising

\* C35: the credential parser runs only while the bonded flag is set, whichever
\* path dispatches the buffer (the closing '}', the timeout, the execute-write).
C35_ParsedOnlyWhileBonded ==
  [][out'.parsed # <<>> => is_bonded]_vars

\* C36: a reassembly timeout is pending only while bytes are buffered: no reset
\* of the buffer leaves the timer armed, and the timer is never armed on an
\* empty buffer.
C36_ArmedOnlyWithBytes ==
  cred_timeout_timer = "armed" => cred_write_len > 0

\* C37: the credential parser is never given a zero-length payload, and after
\* every dispatch the buffer length is 0.
C37_NeverParsesEmpty ==
  out.parsed # <<>> => (Len(out.parsed[1]) > 0 /\ cred_write_len = 0)

C39_ProvisionedObserved ==
  (prov.state = "PROVISIONED" /\ main_pc = "poll") ~> (main_pc = "normal")

\* C40: a reconnect made by the normal-operation loop carries the credentials
\* the device was provisioned with: the pair is not empty and is the one held
\* in storage.
C40_ReconnectWithProvisioned ==
  out.ev = "main_reconnect"
    => /\ Len(out.connects) = 1
       /\ out.connects[1][1] # <<>>
       /\ nvs = out.connects[1]

====
